---- MODULE Spec2Model ----
(***************************************************************************)
(* A model of pelotom/runtypes: record validation (src/types/record.ts),   *)
(* the eventual-result function contract (src/asynccontract.ts), the       *)
(* memoizing Lazy runtype of src/index.ts and the cycle-safe type          *)
(* renderer show (the second half of src/types/function.ts).               *)
(*                                                                         *)
(* Four state machines share this module; each has its own specification   *)
(* (SpecRecord, SpecContract, SpecLazy, SpecShow) that leaves the other    *)
(* machines' variables at their initial values.                            *)
(***************************************************************************)
EXTENDS Integers, Sequences, FiniteSets, TLC

VARIABLES
    \* ---- record machine
    rt,          \* the record runtype under test (what InternalRecord returned)
    rx,          \* the input of the last validate call
    rres,        \* the Result of the last validate call
    rvalidated,  \* TRUE once validate has been called on rt
    \* ---- contract machine: one call of AsyncContract(...).enforce(f)
    cArgTypes,   \* argTypes
    cReturnType, \* returnType
    fBehaviour,  \* what the wrapped function f does when it is invoked
    cOrigArgs,   \* the arguments the caller supplied
    cArgs,       \* args, as the wrapper has rewritten it so far
    cpc,         \* where the call is: ready, validating, pending, done
    ci,          \* the loop index i, counted from 1
    cValidated,  \* the argument positions handed to innerValidate, in order
    fCalls,      \* how many times f has been invoked
    fArgs,       \* the arguments f received
    cOutcome,    \* what the caller of the wrapper observes
    \* ---- lazy machine: the runtypes of src/index.ts
    lcached,     \* the cached variable of each Lazy runtype ("unset": undefined)
    lctorCalls,  \* how many times each Lazy's constructor function fn has run
    lmemoWrites, \* how many times each Lazy's cached has been assigned
    lused,       \* whether each Lazy's coerce has been entered at all
    lapi,        \* the method of the external call: coerce, validate or guard
    lstack,      \* the coerce calls in progress, outermost first
    lmode,       \* idle, call (top frame just entered), return, throw
    lerror,      \* the message of the exception in flight
    lresult,     \* what the last external call gave back
    \* ---- show machine
    circular,    \* the Set<Reflect> shared by every call of the exported show
    sstack,      \* the calls of show(needsParens, circular)(refl) in progress
    smode,       \* idle, call (top frame just entered), return, throw
    sret,        \* the string the call that just returned gave back
    sresult      \* what the last call of the exported show gave back

rvars == <<rt, rx, rres, rvalidated>>
cvars == <<cArgTypes, cReturnType, fBehaviour, cOrigArgs, cArgs, cpc, ci,
           cValidated, fCalls, fArgs, cOutcome>>
lvars == <<lcached, lctorCalls, lmemoWrites, lused, lapi, lstack, lmode, lerror,
           lresult>>
svars == <<circular, sstack, smode, sret, sresult>>
vars == <<rvars, cvars, lvars, svars>>
\* what each machine leaves alone
notRecord == <<cvars, lvars, svars>>
notContract == <<rvars, lvars, svars>>
notLazy == <<rvars, cvars, svars>>
notShow == <<rvars, cvars, lvars>>

-----------------------------------------------------------------------------
(* Bounds of the model *)

\* the largest number of own properties of an input object
MaxProps == 2
\* the largest number of declared parameters of a contract; a caller
\* supplies at most one argument more
MaxParams == 2
\* the number of nested coerce calls the host's call stack holds before it
\* raises RangeError
MaxStack == 9

-----------------------------------------------------------------------------
(* JavaScript values.  A value is a record [t, v, props]: t is its typeof  *)
(* class ("null" for null), v the text `${x}` renders for a primitive and  *)
(* props the own enumerable properties of an object in insertion order.    *)

Prim(t, v) == [t |-> t, v |-> v, props |-> <<>>]
Undefined == Prim("undefined", "undefined")
Null == Prim("null", "null")
Num1 == Prim("number", "1")
Str1 == Prim("string", "x")
Prop(k, val) == [k |-> k, val |-> val]
Obj(props) == [t |-> "object", v |-> "[object Object]", props |-> props]

\* the flags of a record are JavaScript values: true, false, or undefined
\* when read from a property the object does not have
Truthy(flag) == flag = "true"

\* the own property names of x, in insertion order
OwnKeys(x) == [i \in 1..Len(x.props) |-> x.props[i].k]

\* x[key] for an own property, undefined otherwise
RECURSIVE GetFrom(_, _, _)
GetFrom(props, key, i) ==
    IF i > Len(props) THEN Undefined
    ELSE IF props[i].k = key THEN props[i].val
    ELSE GetFrom(props, key, i + 1)

Get(x, key) == GetFrom(x.props, key, 1)

\* for (const key in x): nothing for null, undefined and numbers, the
\* indices of a string, the own enumerable keys of an object
ForInKeys(x) ==
    CASE x.t = "object" -> OwnKeys(x)
      [] x.t = "string" -> [i \in 1..Len(x.v) |-> ToString(i - 1)]
      [] OTHER -> <<>>

\* names every plain object inherits from Object.prototype; the model keeps
\* one representative
ObjectPrototypeKeys == {"constructor"}

-----------------------------------------------------------------------------
(* Results *)

Success(x) == [success |-> TRUE, message |-> "", key |-> "", value |-> x]
\* key = "" stands for a failure without a key
Failure(message, key) ==
    [success |-> FALSE, message |-> message, key |-> key, value |-> Undefined]

-----------------------------------------------------------------------------
(* Runtypes.  A runtype object is its reflect record; a record runtype     *)
(* also carries the variables its validator closed over.                   *)

NumberT == [tag |-> "number"]
StringT == [tag |-> "string"]
OptionalT(d) == [tag |-> "optional", underlying |-> d]
Field(name, type) == [name |-> name, type |-> type]

\* InternalRecord(fields, isPartial, isReadonly, isExact): the object handed
\* to create() has tag, isPartial, isReadonly and fields, and no isExact;
\* the validator closes over fields, isPartial and isExact
InternalRecord(fields, isPartial, isReadonly, isExact) ==
    [tag |-> "record", isPartial |-> isPartial, isReadonly |-> isReadonly,
     fields |-> fields,
     closure |-> [isPartial |-> isPartial, isExact |-> isExact]]

Record(fields) == InternalRecord(fields, "false", "false", "false")
ExactRecord(fields) == InternalRecord(fields, "false", "false", "true")
Partial(fields) == InternalRecord(fields, "true", "false", "false")

\* A.name: the property when the object has it, undefined otherwise
GetProp(A, name) == IF name \in DOMAIN A THEN A[name] ELSE "undefined"

asPartial(A) ==
    InternalRecord(A.fields, "true", GetProp(A, "isReadonly"), GetProp(A, "isExact"))
asReadonly(A) ==
    InternalRecord(A.fields, GetProp(A, "isPartial"), "true", GetProp(A, "isExact"))
exact(A) ==
    InternalRecord(A.fields, GetProp(A, "isPartial"), GetProp(A, "isReadonly"), "true")

\* the names fields declares
DeclaredKeys(fields) == {fields[i].name : i \in 1..Len(fields)}

\* !fields[key]: fields is a plain object, so the lookup also finds what
\* Object.prototype provides
FieldsLookupIsFalsy(fields, key) ==
    ~(key \in DeclaredKeys(fields) \/ key \in ObjectPrototypeKeys)

\* hasKey(key, x) of ../util
hasKey(key, x) == x.t = "object" /\ \E i \in 1..Len(x.props) : x.props[i].k = key

\* show(a) for the reflect object {tag: 'record', fields} built on a null
\* input: neither isPartial nor isReadonly is set on it
RECURSIVE showTree(_, _), showFields(_, _)
showTree(refl, needsParens) ==
    CASE refl.tag \in {"number", "string"} -> refl.tag
      [] refl.tag = "optional" ->
            showTree(refl.underlying, needsParens) \o " | undefined"
      [] refl.tag = "record" ->
            IF Len(refl.fields) = 0 THEN "{}"
            ELSE "{ " \o showFields(refl, 1) \o " }"
showFields(refl, i) ==
    LET f == refl.fields[i]
        one == (IF Truthy(GetProp(refl, "isReadonly")) THEN "readonly " ELSE "")
               \o f.name
               \o (IF Truthy(GetProp(refl, "isPartial")) \/ f.type.tag = "optional"
                   THEN "?" ELSE "")
               \o ": "
               \o (IF f.type.tag = "optional" THEN showTree(f.type.underlying, FALSE)
                   ELSE showTree(f.type, FALSE))
               \o ";"
    IN  IF i = Len(refl.fields) THEN one ELSE one \o " " \o showFields(refl, i + 1)

\* isOptional without the isPartial disjunct
IsOptionalFieldTagOnly(A, f) == f.type.tag = "optional"

\* const isOptional = isPartial || fields[key].reflect.tag === 'optional'
IsOptionalField(A, f) == Truthy(A.closure.isPartial) \/ f.type.tag = "optional"

\* `${key}.${validated.key}` when the nested failure has a key, key otherwise
NestedKey(key, validated) ==
    IF validated.key # "" THEN key \o "." \o validated.key ELSE key

\* the first key of the for-in walk over x that fields does not provide,
\* 0 when there is none
RECURSIVE FirstAdditional(_, _, _)
FirstAdditional(fields, keys, i) ==
    IF i > Len(keys) THEN 0
    ELSE IF FieldsLookupIsFalsy(fields, keys[i]) THEN i
    ELSE FirstAdditional(fields, keys, i + 1)

RECURSIVE innerValidate(_, _, _), FieldLoop(_, _, _, _)

\* the for (const key in fields) loop of the record validator, from the
\* i-th declared field on
FieldLoop(A, x, i, visited) ==
    IF i > Len(A.fields) THEN Success(x)
    ELSE LET f == A.fields[i]
             key == f.name
             isOptional == IsOptionalField(A, f)
         IN  IF hasKey(key, x)
             THEN IF isOptional /\ Get(x, key) = Undefined
                  THEN FieldLoop(A, x, i + 1, visited)
                  ELSE LET validated == innerValidate(f.type, Get(x, key), visited)
                       IN  IF ~validated.success
                           THEN Failure(validated.message, NestedKey(key, validated))
                           ELSE FieldLoop(A, x, i + 1, visited)
             ELSE IF ~isOptional
                  THEN Failure("Expected \"" \o key
                               \o "\" property to be present, but was missing", key)
                  ELSE FieldLoop(A, x, i + 1, visited)

\* the validator InternalRecord hands to create()
RecordValidator(A, x, visited) ==
    LET keys == ForInKeys(x)
        extra == FirstAdditional(A.fields, keys, 1)
    IN  IF Truthy(A.closure.isExact) /\ extra # 0
        THEN Failure("Additional field " \o keys[extra], "")
        ELSE IF x.t \in {"null", "undefined"}
        THEN Failure("Expected "
                     \o showTree([tag |-> "record", fields |-> A.fields], FALSE)
                     \o ", but was " \o x.v, "")
        ELSE FieldLoop(A, x, 1, visited)

\* the leaf checks of the primitive runtypes
PrimitiveValidator(d, x) ==
    IF x.t = d.tag THEN Success(x)
    ELSE Failure("Expected " \o d.tag \o ", but was " \o x.t, "")

\* Optional(T) is Union(T, Undefined): the first alternative that accepts
\* wins, and no alternative matching is one message without a key
OptionalValidator(d, x, visited) ==
    IF innerValidate(d.underlying, x, visited).success \/ x = Undefined
    THEN Success(x)
    ELSE Failure("No alternatives were matched", "")

\* the validation engine: a (runtype, value) pair met again while it is in
\* progress is answered with a tentative success
innerValidate(d, x, visited) ==
    IF <<d, x>> \in visited THEN Success(x)
    ELSE LET v == visited \cup {<<d, x>>}
         IN  CASE d.tag = "record" -> RecordValidator(d, x, v)
               [] d.tag = "optional" -> OptionalValidator(d, x, v)
               [] OTHER -> PrimitiveValidator(d, x)

\* A.validate(x): one external call, with a visited table of its own
validate(A, x) == innerValidate(A, x, {})

\* innerGuard: undefined (failed = FALSE) when x passes, the failure otherwise
innerGuard(d, x, visited) ==
    LET r == innerValidate(d, x, visited)
    IN  [failed |-> ~r.success, message |-> r.message, key |-> r.key]

-----------------------------------------------------------------------------
(* The inputs of the record machine *)

InnerRecord == Record(<<Field("c", NumberT)>>)

FieldSets ==
    { <<Field("a", NumberT)>>,
      <<Field("a", NumberT), Field("b", OptionalT(StringT))>>,
      <<Field("b", InnerRecord), Field("a", StringT)>> }

InputKeys == {"a", "b", "z", "constructor"}

PropValues ==
    { Num1, Str1, Undefined, Null,
      Obj(<<Prop("c", Num1)>>), Obj(<<Prop("c", Str1)>>), Obj(<<>>) }

\* the sequences of at most n properties with distinct keys
RECURSIVE PropSeqs(_)
PropSeqs(n) ==
    IF n = 0 THEN {<<>>}
    ELSE LET shorter == PropSeqs(n - 1)
         IN  shorter \cup
             { Append(s, Prop(k, val)) :
                 s \in {t \in shorter : Len(t) = n - 1},
                 k \in InputKeys, val \in PropValues }

DistinctKeys(s) == \A i, j \in 1..Len(s) : s[i].k = s[j].k => i = j

RecordInputs ==
    {Null, Undefined, Num1, Str1}
    \cup {Obj(s) : s \in {t \in PropSeqs(MaxProps) : DistinctKeys(t)}}

-----------------------------------------------------------------------------
(* The record machine: a record runtype built by Record, ExactRecord or    *)
(* Partial and an input; the modifiers replace the runtype, validate       *)
(* applies it to the input.                                                *)

RecordInit ==
    /\ \E fields \in FieldSets :
          rt \in {Record(fields), ExactRecord(fields), Partial(fields)}
    /\ rx \in RecordInputs
    /\ rres = Success(Undefined)
    /\ rvalidated = FALSE

\* a modifier returns a new runtype, which has validated nothing yet
Fresh(A) ==
    /\ rt' = A
    /\ rres' = Success(Undefined)
    /\ rvalidated' = FALSE
    /\ UNCHANGED <<rx, notRecord>>

CallAsPartial == Fresh(asPartial(rt))
CallAsReadonly == Fresh(asReadonly(rt))
CallExact == Fresh(exact(rt))

CallValidate ==
    /\ rres' = validate(rt, rx)
    /\ rvalidated' = TRUE
    /\ UNCHANGED <<rt, rx, notRecord>>

RecordNext ==
    \/ CallAsPartial
    \/ CallAsReadonly
    \/ CallExact
    \/ CallValidate

RecordIdle ==
    /\ rt = Record(<<>>)
    /\ rx = Undefined
    /\ rres = Success(Undefined)
    /\ rvalidated = FALSE

-----------------------------------------------------------------------------
(* The contract machine: one call of the wrapper that                      *)
(* AsyncContract(argTypes, returnType).enforce(f) returns.                 *)

\* what the caller observes: nothing yet, a pending promise, a rejected or
\* fulfilled promise, or an exception raised out of the wrapper call
NoOutcome == [kind |-> "none", message |-> "", key |-> "", value |-> Undefined]
Pending == [kind |-> "pending", message |-> "", key |-> "", value |-> Undefined]
\* Promise.reject(new ValidationError(message, key)), or a throw of it
\* inside the then callback
Rejected(message, key) ==
    [kind |-> "rejected", message |-> message, key |-> key, value |-> Undefined]
Fulfilled(v) == [kind |-> "fulfilled", message |-> "", key |-> "", value |-> v]
Thrown(message) ==
    [kind |-> "thrown", message |-> message, key |-> "", value |-> Undefined]

\* args[i]: undefined past the end of the array
ArgAt(args, i) == IF i <= Len(args) THEN args[i] ELSE Undefined

\* args[i] = value: an assignment past the end lengthens the array
SetArg(args, i, value) ==
    [j \in 1..(IF i > Len(args) THEN i ELSE Len(args)) |->
        IF j = i THEN value ELSE ArgAt(args, j)]

\* args.length < argTypes.length, with one argument fewer forgiven
ArityShortfallOffByOne(args, argTypes) == Len(args) + 1 < Len(argTypes)

\* args.length < argTypes.length
ArityShortfall(args, argTypes) == Len(args) < Len(argTypes)

\* the i-th argument validated against the first parameter's runtype
ArgResultFirstType(argTypes, args, i) == innerValidate(argTypes[1], ArgAt(args, i), {})

\* innerValidate(argTypes[i], args[i], visited); no pair is in progress
\* between two arguments
ArgResult(argTypes, args, i) == innerValidate(argTypes[i], ArgAt(args, i), {})

\* the then callback without the guard: the value passes through
ThenCallbackUnchecked(returnType, value) == Fulfilled(value)

\* value => { const result = innerGuard(returnType, value, new Map());
\*            if (result) throw ...; return value }
ThenCallback(returnType, value) ==
    LET result == innerGuard(returnType, value, {})
    IN  IF result.failed THEN Rejected(result.message, result.key)
        ELSE Fulfilled(value)

ContractArgTypes == {NumberT, InnerRecord}
ContractReturnTypes == {NumberT, InnerRecord}
ContractValues == {Num1, Str1, Obj(<<Prop("c", Str1)>>)}

SeqsUpTo(S, n) == UNION {[1..k -> S] : k \in 0..n}

\* f throws when invoked, returns something that is no promise, or returns
\* a promise that later resolves or rejects
Behaviours ==
    {[kind |-> "throws", value |-> Undefined],
     [kind |-> "returns", value |-> Undefined],
     [kind |-> "rejects", value |-> Undefined]}
    \cup {[kind |-> "resolves", value |-> v] :
             v \in ContractValues \cup {Obj(<<Prop("c", Num1)>>)}}

ContractInit ==
    /\ cArgTypes \in SeqsUpTo(ContractArgTypes, MaxParams)
    /\ cReturnType \in ContractReturnTypes
    /\ fBehaviour \in Behaviours
    /\ cOrigArgs \in SeqsUpTo(ContractValues, MaxParams + 1)
    /\ cArgs = cOrigArgs
    /\ cpc = "ready"
    /\ ci = 1
    /\ cValidated = <<>>
    /\ fCalls = 0
    /\ fArgs = <<>>
    /\ cOutcome = NoOutcome

ContractIdle ==
    /\ cArgTypes = <<>>
    /\ cReturnType = NumberT
    /\ fBehaviour = [kind |-> "returns", value |-> Undefined]
    /\ cOrigArgs = <<>>
    /\ cArgs = <<>>
    /\ cpc = "idle"
    /\ ci = 1
    /\ cValidated = <<>>
    /\ fCalls = 0
    /\ fArgs = <<>>
    /\ cOutcome = NoOutcome

\* the wrapper is called: the argument count is checked first
Call ==
    /\ cpc = "ready"
    /\ IF ArityShortfall(cArgs, cArgTypes)
       THEN /\ cOutcome' = Rejected("Expected " \o ToString(Len(cArgTypes))
                                    \o " arguments but only received "
                                    \o ToString(Len(cArgs)), "")
            /\ cpc' = "done"
       ELSE /\ cOutcome' = NoOutcome
            /\ cpc' = "validating"
    /\ ci' = 1
    /\ UNCHANGED <<cArgTypes, cReturnType, fBehaviour, cOrigArgs, cArgs,
                   cValidated, fCalls, fArgs, notContract>>

\* one turn of for (let i = 0; i < argTypes.length; i++)
ValidateArg ==
    /\ cpc = "validating"
    /\ ci <= Len(cArgTypes)
    /\ LET result == ArgResult(cArgTypes, cArgs, ci)
       IN  /\ cValidated' = Append(cValidated, ci)
           /\ IF result.success
              THEN /\ cArgs' = SetArg(cArgs, ci, result.value)
                   /\ ci' = ci + 1
                   /\ UNCHANGED <<cpc, cOutcome>>
              ELSE /\ cOutcome' = Rejected(result.message, result.key)
                   /\ cpc' = "done"
                   /\ UNCHANGED <<cArgs, ci>>
    /\ UNCHANGED <<cArgTypes, cReturnType, fBehaviour, cOrigArgs, fCalls, fArgs,
                   notContract>>

\* const returnedPromise = f(...args), the instanceof Promise test and the
\* call of then
InvokeF ==
    /\ cpc = "validating"
    /\ ci > Len(cArgTypes)
    /\ fCalls' = fCalls + 1
    /\ fArgs' = cArgs
    /\ CASE fBehaviour.kind = "throws" ->
                /\ cOutcome' = Thrown("f failed")
                /\ cpc' = "done"
         [] fBehaviour.kind = "returns" ->
                /\ cOutcome' = Rejected(
                       "Expected function to return a promise, but instead got "
                       \o fBehaviour.value.v, "")
                /\ cpc' = "done"
         [] OTHER ->
                /\ cOutcome' = Pending
                /\ cpc' = "pending"
    /\ UNCHANGED <<cArgTypes, cReturnType, fBehaviour, cOrigArgs, cArgs, ci,
                   cValidated, notContract>>

\* the promise f returned resolves: the then callback runs
PromiseResolves ==
    /\ cpc = "pending"
    /\ fBehaviour.kind = "resolves"
    /\ cOutcome' = ThenCallback(cReturnType, fBehaviour.value)
    /\ cpc' = "done"
    /\ UNCHANGED <<cArgTypes, cReturnType, fBehaviour, cOrigArgs, cArgs, ci,
                   cValidated, fCalls, fArgs, notContract>>

\* the promise f returned rejects: then has no rejection handler, and the
\* wrapper's promise rejects with f's reason
PromiseRejects ==
    /\ cpc = "pending"
    /\ fBehaviour.kind = "rejects"
    /\ cOutcome' = Rejected("f failed", "")
    /\ cpc' = "done"
    /\ UNCHANGED <<cArgTypes, cReturnType, fBehaviour, cOrigArgs, cArgs, ci,
                   cValidated, fCalls, fArgs, notContract>>

ContractNext ==
    \/ Call
    \/ ValidateArg
    \/ InvokeF
    \/ PromiseResolves
    \/ PromiseRejects

-----------------------------------------------------------------------------------------------------------------------------------------------------
(* The lazy machine: Lazy, Record and Number of src/index.ts, whose        *)
(* runtypes are {coerce, validate, guard}.  Values are names; the objects  *)
(* live in a heap, so an object can refer to itself.                       *)

LPrims == {"n1", "s1", "null", "undefined"}

\* o1 refers to itself, o2 and o3 to each other, o4 starts a chain that
\* ends in a number
LHeap ==
    [o1 |-> [val |-> "n1", next |-> "o1"],
     o2 |-> [val |-> "n1", next |-> "o3"],
     o3 |-> [val |-> "n1", next |-> "o2"],
     o4 |-> [val |-> "n1", next |-> "o5"],
     o5 |-> [val |-> "n1", next |-> "n1"]]

LObjects == DOMAIN LHeap
LValues == LPrims \cup LObjects

\* typeof x
LTypeof(x) ==
    CASE x \in LObjects \/ x = "null" -> "object"
      [] x = "n1" -> "number"
      [] x = "s1" -> "string"
      [] OTHER -> "undefined"

\* x[key] for a value that is not null or undefined
LGet(x, key) == IF x \in LObjects THEN LHeap[x][key] ELSE "undefined"

\* const Node = Lazy(() => Record({val: Number, next: Node}))
\* const Leaf = Lazy(() => Number)
LRuntypes ==
    [Number |-> [kind |-> "number", keys |-> <<>>, fn |-> ""],
     Rec    |-> [kind |-> "record", keys |-> <<"val", "next">>, fn |-> ""],
     Node   |-> [kind |-> "lazy", keys |-> <<>>, fn |-> "Rec"],
     Leaf   |-> [kind |-> "lazy", keys |-> <<>>, fn |-> "Number"]]

\* runtypes[key] of Rec
RecFieldType(key) == IF key = "val" THEN "Number" ELSE "Node"

Lazies == {"Node", "Leaf"}

Frame(d, x) == [d |-> d, x |-> x, k |-> 0]

LazyInit ==
    /\ lcached = [L \in Lazies |-> "unset"]
    /\ lctorCalls = [L \in Lazies |-> 0]
    /\ lmemoWrites = [L \in Lazies |-> 0]
    /\ lused = [L \in Lazies |-> FALSE]
    /\ lapi = "coerce"
    /\ lstack = <<>>
    /\ lmode = "idle"
    /\ lerror = ""
    /\ lresult = [kind |-> "none", success |-> FALSE, message |-> ""]

LazyIdle == LazyInit

Top == lstack[Len(lstack)]
Pop == SubSeq(lstack, 1, Len(lstack) - 1)

\* d.coerce(x) is called from the top frame: a new frame, unless the call
\* stack is exhausted
CallCoerce(stack, d, x) ==
    IF Len(stack) >= MaxStack
    THEN /\ lstack' = stack
         /\ lmode' = "throw"
         /\ lerror' = "Maximum call stack size exceeded"
    ELSE /\ lstack' = Append(stack, Frame(d, x))
         /\ lmode' = "call"
         /\ lerror' = ""

\* the constructor function runs on every use
LazyMustConstructAlways(cached) == TRUE

\* if (!cached)
LazyMustConstruct(cached) == cached = "unset"

\* an external rt.coerce(x), rt.validate(x) or rt.guard(x)
ExternalCall ==
    /\ lmode = "idle"
    /\ \E api \in {"coerce", "validate", "guard"}, d \in DOMAIN LRuntypes, x \in LValues :
          /\ lapi' = api
          /\ lstack' = <<Frame(d, x)>>
          /\ lmode' = "call"
    /\ lerror' = ""
    /\ lresult' = [kind |-> "none", success |-> FALSE, message |-> ""]
    /\ UNCHANGED <<lcached, lctorCalls, lmemoWrites, lused, notLazy>>

\* Lazy's coerce: if (!cached) cached = fn(); return cached.coerce(x)
LazyCoerce ==
    /\ lmode = "call"
    /\ LRuntypes[Top.d].kind = "lazy"
    /\ LET L == Top.d
           construct == LazyMustConstruct(lcached[L])
           cached == IF construct THEN LRuntypes[L].fn ELSE lcached[L]
       IN  /\ lused' = [lused EXCEPT ![L] = TRUE]
           /\ lcached' = [lcached EXCEPT ![L] = cached]
           /\ lctorCalls' = [lctorCalls EXCEPT ![L] = @ + (IF construct THEN 1 ELSE 0)]
           /\ lmemoWrites' = [lmemoWrites EXCEPT ![L] = @ + (IF construct THEN 1 ELSE 0)]
           /\ CallCoerce([lstack EXCEPT ![Len(lstack)].k = 1], cached, Top.x)
    /\ UNCHANGED <<lapi, lresult, notLazy>>

\* Number's coerce
NumberCoerce ==
    /\ lmode = "call"
    /\ LRuntypes[Top.d].kind = "number"
    /\ lstack' = Pop
    /\ IF LTypeof(Top.x) = "number"
       THEN lmode' = "return" /\ lerror' = ""
       ELSE lmode' = "throw" /\ lerror' = "Expected number but was " \o LTypeof(Top.x)
    /\ UNCHANGED <<lcached, lctorCalls, lmemoWrites, lused, lapi, lresult, notLazy>>

\* Record's coerce, up to its first field: the typeof test, then
\* runtypes[key].coerce(x[key]) for the first key
RecordCoerce ==
    /\ lmode = "call"
    /\ LRuntypes[Top.d].kind = "record"
    /\ IF LTypeof(Top.x) # "object"
       THEN /\ lstack' = Pop
            /\ lmode' = "throw"
            /\ lerror' = "Expected object but was " \o LTypeof(Top.x)
       ELSE IF Top.x = "null"
       THEN /\ lstack' = Pop
            /\ lmode' = "throw"
            /\ lerror' = "Cannot read property of null"
       ELSE LET key == LRuntypes[Top.d].keys[1]
            IN  CallCoerce([lstack EXCEPT ![Len(lstack)].k = 1],
                           RecFieldType(key), LGet(Top.x, key))
    /\ UNCHANGED <<lcached, lctorCalls, lmemoWrites, lused, lapi, lresult, notLazy>>

\* a field's coerce returned to Record's loop: the next field, or return x
RecordNextField ==
    /\ lmode = "return"
    /\ lstack # <<>>
    /\ LRuntypes[Top.d].kind = "record"
    /\ IF Top.k < Len(LRuntypes[Top.d].keys)
       THEN LET key == LRuntypes[Top.d].keys[Top.k + 1]
            IN  CallCoerce([lstack EXCEPT ![Len(lstack)].k = Top.k + 1],
                           RecFieldType(key), LGet(Top.x, key))
       ELSE /\ lstack' = Pop
            /\ lmode' = "return"
            /\ lerror' = ""
    /\ UNCHANGED <<lcached, lctorCalls, lmemoWrites, lused, lapi, lresult, notLazy>>

\* cached.coerce(x) returned to Lazy's coerce, which returns its value
LazyReturn ==
    /\ lmode = "return"
    /\ lstack # <<>>
    /\ LRuntypes[Top.d].kind = "lazy"
    /\ lstack' = Pop
    /\ UNCHANGED <<lmode, lerror, lcached, lctorCalls, lmemoWrites, lused, lapi,
                   lresult, notLazy>>

\* an exception leaves a coerce call: no coerce has a handler
Unwind ==
    /\ lmode = "throw"
    /\ lstack # <<>>
    /\ lstack' = Pop
    /\ UNCHANGED <<lmode, lerror, lcached, lctorCalls, lmemoWrites, lused, lapi,
                   lresult, notLazy>>

\* the outermost coerce is over: coerce returns or raises, validate turns
\* either into a Result, guard into validate(x).success
ExternalReturn ==
    /\ lmode \in {"return", "throw"}
    /\ lstack = <<>>
    /\ lresult' =
          CASE lapi = "coerce" ->
                  [kind |-> IF lmode = "return" THEN "returned" ELSE "raised",
                   success |-> lmode = "return", message |-> lerror]
            [] lapi = "validate" ->
                  [kind |-> "result", success |-> lmode = "return", message |-> lerror]
            [] OTHER ->
                  [kind |-> "boolean", success |-> lmode = "return", message |-> ""]
    /\ lmode' = "idle"
    /\ lerror' = ""
    /\ UNCHANGED <<lstack, lcached, lctorCalls, lmemoWrites, lused, lapi, notLazy>>

LazyNext ==
    \/ ExternalCall
    \/ LazyCoerce
    \/ NumberCoerce
    \/ RecordCoerce
    \/ RecordNextField
    \/ LazyReturn
    \/ Unwind
    \/ ExternalReturn

-----------------------------------------------------------------------------
(* The show machine: the exported show = show(false, new Set()) walking a  *)
(* graph of reflect objects.  A node is a name; SNodes gives its tag, the  *)
(* nodes it refers to and what else its rendering reads.                   *)

SNode(tag, kids, keys, name, isReadonly, isPartial) ==
    [tag |-> tag, kids |-> kids, keys |-> keys, name |-> name,
     isReadonly |-> isReadonly, isPartial |-> isPartial]

\* rec refers to itself directly, through its optional field and through
\* arr and uni; dic is its own value type; uns has a tag show has no case for
SNodes ==
    [num |-> SNode("number", <<>>, <<>>, "", FALSE, FALSE),
     lit |-> SNode("literal", <<>>, <<>>, "\"a\"", FALSE, FALSE),
     ins |-> SNode("instanceof", <<>>, <<>>, "Date", FALSE, FALSE),
     nam |-> SNode("constraint", <<"num">>, <<>>, "Positive", FALSE, FALSE),
     emp |-> SNode("record", <<>>, <<>>, "", FALSE, FALSE),
     uns |-> SNode("unsupported", <<>>, <<>>, "", FALSE, FALSE),
     rec |-> SNode("record", <<"rec", "opt", "arr">>, <<"self", "maybe", "list">>,
                   "", TRUE, FALSE),
     opt |-> SNode("optional", <<"rec">>, <<>>, "", FALSE, FALSE),
     arr |-> SNode("array", <<"uni">>, <<>>, "", FALSE, FALSE),
     uni |-> SNode("union", <<"num", "arr", "lit">>, <<>>, "", FALSE, FALSE),
     tup |-> SNode("tuple", <<"num", "uns", "rec">>, <<>>, "", FALSE, FALSE),
     dic |-> SNode("dictionary", <<"dic">>, <<>>, "string", FALSE, FALSE),
     int |-> SNode("intersect", <<"opt", "tup">>, <<>>, "", FALSE, FALSE),
     brd |-> SNode("brand", <<"con">>, <<>>, "", FALSE, FALSE),
     con |-> SNode("constraint", <<"par">>, <<>>, "", FALSE, FALSE),
     par |-> SNode("record", <<"ins", "brd">>, <<"when", "back">>, "", FALSE, TRUE)]

SPrimitiveTags ==
    {"unknown", "never", "void", "boolean", "number", "bigint", "string", "symbol",
     "function"}

\* the tags whose case renders other nodes
SCompositeTags ==
    {"array", "dictionary", "record", "tuple", "union", "intersect", "optional",
     "constraint", "brand"}

parenthesize(needsParens, str) == IF needsParens THEN "(" \o str \o ")" ELSE str
readonlyTag(refl) == IF refl.isReadonly THEN "readonly " ELSE ""
partialTag(refl, i) ==
    IF refl.isPartial \/ SNodes[refl.kids[i]].tag = "optional" THEN "?" ELSE ""

\* the nodes the case of refl hands to show, in order; a named constraint
\* hands none, a record hands the underlying of a field tagged optional
ShownKids(refl) ==
    CASE refl.tag = "constraint" /\ refl.name # "" -> <<>>
      [] refl.tag = "record" ->
            [i \in 1..Len(refl.kids) |->
                IF SNodes[refl.kids[i]].tag = "optional"
                THEN SNodes[refl.kids[i]].kids[1] ELSE refl.kids[i]]
      [] refl.tag \in SCompositeTags -> refl.kids
      [] OTHER -> <<>>

\* the needsParens the case of refl passes on
KidNeedsParens(refl, needsParens) ==
    CASE refl.tag \in {"array", "union", "intersect"} -> TRUE
      [] refl.tag \in {"optional", "constraint", "brand"} -> needsParens
      [] OTHER -> FALSE

\* acc with the rendering str of the i-th shown node of refl added
WithKid(refl, acc, i, str) ==
    LET piece == IF refl.tag = "record"
                 THEN readonlyTag(refl) \o refl.keys[i] \o partialTag(refl, i)
                      \o ": " \o str \o ";"
                 ELSE str
        sep == CASE refl.tag = "record" -> " "
                 [] refl.tag = "tuple" -> ", "
                 [] refl.tag = "union" -> " | "
                 [] refl.tag = "intersect" -> " & "
                 [] OTHER -> ""
    IN  IF i = 1 THEN piece ELSE acc \o sep \o piece

\* what the case of refl returns once its nodes are rendered into acc
Rendered(refl, needsParens, acc) ==
    CASE refl.tag \in SPrimitiveTags -> refl.tag
      [] refl.tag = "literal" -> refl.name
      [] refl.tag = "array" -> readonlyTag(refl) \o acc \o "[]"
      [] refl.tag = "dictionary" -> "{ [_: " \o refl.name \o "]: " \o acc \o " }"
      [] refl.tag = "record" ->
            IF Len(refl.keys) # 0 THEN "{ " \o acc \o " }" ELSE "{}"
      [] refl.tag = "tuple" -> "[" \o acc \o "]"
      [] refl.tag \in {"union", "intersect"} -> parenthesize(needsParens, acc)
      [] refl.tag = "optional" -> acc \o " | undefined"
      [] refl.tag = "constraint" -> IF refl.name # "" THEN refl.name ELSE acc
      [] refl.tag = "instanceof" -> "InstanceOf<" \o refl.name \o ">"
      [] refl.tag = "brand" -> acc

\* show has a case for the tag
HasCase(refl) ==
    refl.tag \in SPrimitiveTags \cup SCompositeTags \cup {"literal", "instanceof"}

\* the set after a call that deletes refl only when its try block returned
AfterShowNoFinally(set, n, raised) == IF raised THEN set ELSE set \ {n}

\* finally { circular.delete(refl) }: on a return and on a raise alike
AfterShow(set, n, raised) == set \ {n}

SFrame(n, needsParens) == [n |-> n, needsParens |-> needsParens, k |-> 0, acc |-> ""]

ShowInit ==
    /\ circular = {}
    /\ sstack = <<>>
    /\ smode = "idle"
    /\ sret = ""
    /\ sresult = [kind |-> "none", text |-> ""]

ShowIdle == ShowInit

STop == sstack[Len(sstack)]
SPop == SubSeq(sstack, 1, Len(sstack) - 1)

\* the exported show is called on a reflect object
ShowCall ==
    /\ smode = "idle"
    /\ \E n \in DOMAIN SNodes : sstack' = <<SFrame(n, FALSE)>>
    /\ smode' = "call"
    /\ sret' = ""
    /\ sresult' = [kind |-> "none", text |-> ""]
    /\ UNCHANGED <<circular, notShow>>

\* a call of show's inner function, up to its first nested call: the
\* circular test, circular.add, and the case of the tag
ShowEnter ==
    /\ smode = "call"
    /\ LET n == STop.n
           refl == SNodes[n]
           kids == ShownKids(refl)
       IN  IF n \in circular
           THEN /\ sret' = parenthesize(STop.needsParens, "CIRCULAR " \o refl.tag)
                /\ smode' = "return"
                /\ sstack' = SPop
                /\ UNCHANGED circular
           ELSE IF ~HasCase(refl)
           THEN \* no case returns: finally, then throw Error('impossible')
                /\ circular' = AfterShow(circular \cup {n}, n, FALSE)
                /\ sret' = "impossible"
                /\ smode' = "throw"
                /\ sstack' = SPop
           ELSE IF kids = <<>>
           THEN /\ circular' = AfterShow(circular \cup {n}, n, FALSE)
                /\ sret' = Rendered(refl, STop.needsParens, "")
                /\ smode' = "return"
                /\ sstack' = SPop
           ELSE /\ circular' = circular \cup {n}
                /\ sret' = ""
                /\ smode' = "call"
                /\ sstack' = Append([sstack EXCEPT ![Len(sstack)].k = 1],
                                    SFrame(kids[1], KidNeedsParens(refl, STop.needsParens)))
    /\ UNCHANGED <<sresult, notShow>>

\* a nested call returned its string: the next nested call, or the return
\* of the case and the finally block
ShowResume ==
    /\ smode = "return"
    /\ sstack # <<>>
    /\ LET n == STop.n
           refl == SNodes[n]
           kids == ShownKids(refl)
           acc == WithKid(refl, STop.acc, STop.k, sret)
       IN  IF STop.k < Len(kids)
           THEN /\ sstack' = Append([sstack EXCEPT ![Len(sstack)].k = STop.k + 1,
                                                   ![Len(sstack)].acc = acc],
                                    SFrame(kids[STop.k + 1],
                                           KidNeedsParens(refl, STop.needsParens)))
                /\ smode' = "call"
                /\ sret' = ""
                /\ UNCHANGED circular
           ELSE /\ circular' = AfterShow(circular, n, FALSE)
                /\ sret' = Rendered(refl, STop.needsParens, acc)
                /\ smode' = "return"
                /\ sstack' = SPop
    /\ UNCHANGED <<sresult, notShow>>

\* an exception raised by a nested call leaves the try block: the finally
\* block runs and the exception goes on
ShowUnwind ==
    /\ smode = "throw"
    /\ sstack # <<>>
    /\ circular' = AfterShow(circular, STop.n, TRUE)
    /\ sstack' = SPop
    /\ UNCHANGED <<smode, sret, sresult, notShow>>

\* the call of the exported show is over
ShowDone ==
    /\ smode \in {"return", "throw"}
    /\ sstack = <<>>
    /\ sresult' = [kind |-> IF smode = "return" THEN "returned" ELSE "raised",
                   text |-> sret]
    /\ smode' = "idle"
    /\ sret' = ""
    /\ UNCHANGED <<circular, sstack, notShow>>

ShowNext ==
    \/ ShowCall
    \/ ShowEnter
    \/ ShowResume
    \/ ShowUnwind
    \/ ShowDone

-----
(* Specifications *)

InitRecord == RecordInit /\ ContractIdle /\ LazyIdle /\ ShowIdle
SpecRecord == InitRecord /\ [][RecordNext]_vars

InitContract == ContractInit /\ RecordIdle /\ LazyIdle /\ ShowIdle
SpecContract == InitContract /\ [][ContractNext]_vars

InitLazy == LazyInit /\ RecordIdle /\ ContractIdle /\ ShowIdle
SpecLazy == InitLazy /\ [][LazyNext]_vars

InitShow == ShowInit /\ RecordIdle /\ ContractIdle /\ LazyIdle
SpecShow == InitShow /\ [][ShowNext]_vars

-----------------------------------------------------------------------------
(* Claims about the record machine *)

Modifiers == {"asPartial", "asReadonly", "exact"}

ApplyModifier(m, A) ==
    CASE m = "asPartial" -> asPartial(A)
      [] m = "asReadonly" -> asReadonly(A)
      [] m = "exact" -> exact(A)

\* C5: the flag-setting modifiers commute: for any two modifiers m1, m2 the
\* runtypes m2(m1(R)) and m1(m2(R)) carry the same isPartial, isReadonly and
\* isExact flags and accept exactly the same inputs.
C5_ModifiersCommute ==
    \A m1, m2 \in Modifiers :
        LET A12 == ApplyModifier(m2, ApplyModifier(m1, rt))
            A21 == ApplyModifier(m1, ApplyModifier(m2, rt))
        IN  /\ GetProp(A12, "isPartial") = GetProp(A21, "isPartial")
            /\ GetProp(A12, "isReadonly") = GetProp(A21, "isReadonly")
            /\ GetProp(A12, "isExact") = GetProp(A21, "isExact")
            /\ validate(A12, rx).success = validate(A21, rx).success

\* the own keys of the input that the record does not declare
UndeclaredKeys == {rx.props[i].k : i \in 1..Len(rx.props)} \ DeclaredKeys(rt.fields)

\* C6: an exact record rejects every input that carries a key absent from
\* the declared fields, with a message naming such a key and no field's key,
\* whatever the declared fields of the input look like.
C6_ExactRejectsUndeclaredKey ==
    (rvalidated /\ Truthy(rt.closure.isExact) /\ UndeclaredKeys # {}) =>
        /\ ~rres.success
        /\ rres.key = ""
        /\ \E k \in UndeclaredKeys : rres.message = "Additional field " \o k

\* what the claim says of one declared field f of rt, for the input rx
C7_Present(f) == rx.t = "object" /\ f.name \in {rx.props[i].k : i \in 1..Len(rx.props)}
C7_Optional(f) == Truthy(rt.isPartial) \/ f.type.tag = "optional"
C7_FieldFails(f) ==
    IF C7_Present(f)
    THEN /\ ~(C7_Optional(f) /\ Get(rx, f.name) = Undefined)
         /\ ~validate(f.type, Get(rx, f.name)).success
    ELSE ~C7_Optional(f)
C7_FieldFailure(f) ==
    IF C7_Present(f)
    THEN LET nested == validate(f.type, Get(rx, f.name))
         IN  Failure(nested.message,
                     IF nested.key = "" THEN f.name ELSE f.name \o "." \o nested.key)
    ELSE Failure("Expected \"" \o f.name \o "\" property to be present, but was missing",
                 f.name)
\* the unexpected-key check of an exact record did not reject the input
C7_ReachedFields ==
    \A i \in 1..Len(ForInKeys(rx)) : rres.message # "Additional field " \o ForInKeys(rx)[i]

\* C7: on a non-null input that reaches the field loop, a required field
\* that is absent fails with "missing property" and the field's name as key,
\* an absent optional field and an optional field holding undefined never
\* fail, any other field fails as its own runtype does, with the key
\* prefixed by the field's name, and the Result is the failure of the first
\* failing declared field, or success with the input when none fails.
C7_FieldByFieldValidation ==
    (rvalidated /\ rx.t \notin {"null", "undefined"} /\ C7_ReachedFields) =>
        LET failing == {i \in 1..Len(rt.fields) : C7_FieldFails(rt.fields[i])}
        IN  IF failing = {} THEN rres = Success(rx)
            ELSE LET first == CHOOSE i \in failing : \A j \in failing : i <= j
                 IN  rres = C7_FieldFailure(rt.fields[first])

\* a nested record's failure surfaced under the outer field's name
C7_Witness_NestedKey == rvalidated /\ ~rres.success /\ rres.key = "b.c"

-----------------------------------------------------------------------------
(* Claims about the contract machine *)

\* f was invoked with valid arguments and its promise resolved
C1_Resolved == cpc = "done" /\ fCalls = 1 /\ fBehaviour.kind = "resolves"

C2_NeverRaisesSynchronously ==
    cpc \in {"pending", "done"} => cOutcome.kind \in {"pending", "rejected", "fulfilled"}

\* the caller supplied fewer arguments than there are parameters
C3_Shortfall == cpc # "ready" /\ Len(cOrigArgs) < Len(cArgTypes)

\* C3: a call with fewer arguments than declared parameters is rejected, f
\* is never invoked, and no argument is validated or replaced.
C3_ShortfallRejectsBeforeAnything ==
    C3_Shortfall =>
        /\ cpc = "done"
        /\ cOutcome = Rejected("Expected " \o ToString(Len(cArgTypes))
                               \o " arguments but only received "
                               \o ToString(Len(cOrigArgs)), "")
        /\ fCalls = 0
        /\ cValidated = <<>>
        /\ cArgs = cOrigArgs

C3_Witness_Shortfall == C3_Shortfall /\ Len(cOrigArgs) = 1 /\ cOutcome.kind = "rejected"

\* the declared positions whose supplied argument its runtype refuses
C4_Invalid ==
    {i \in 1..Len(cArgTypes) : ~validate(cArgTypes[i], ArgAt(cOrigArgs, i)).success}

\* C4: arguments are validated in positional order; the call is rejected at
\* the first invalid position with that runtype's message and key, later
\* positions are not validated and f is not invoked; f is invoked at most
\* once, only after every declared position has validated, and receives the
\* validated value in each declared position.
C4_PositionalOrder ==
    LET n == Len(cArgTypes)
    IN  /\ cValidated = [i \in 1..Len(cValidated) |-> i]
        /\ fCalls <= 1
        /\ fCalls = 1 =>
              /\ C4_Invalid = {}
              /\ Len(cValidated) = n
              /\ \A i \in 1..n :
                    fArgs[i] = validate(cArgTypes[i], cOrigArgs[i]).value
        /\ (cpc \in {"pending", "done"} /\ Len(cOrigArgs) >= n /\ C4_Invalid = {}) =>
              fCalls = 1
        /\ (Len(cOrigArgs) >= n /\ C4_Invalid # {}) =>
              LET first == CHOOSE i \in C4_Invalid : \A j \in C4_Invalid : i <= j
                  r == validate(cArgTypes[first], cOrigArgs[first])
              IN  /\ Len(cValidated) <= first
                  /\ fCalls = 0
                  /\ cpc = "done" =>
                        /\ cValidated = [i \in 1..first |-> i]
                        /\ cOutcome = Rejected(r.message, r.key)

\* both arguments are invalid: the call is rejected at the first, with its
\* key, and the second was never looked at
C4_Witness_StopsAtFirstInvalid ==
    /\ cpc = "done"
    /\ C4_Invalid = {1, 2}
    /\ cValidated = <<1>>
    /\ cOutcome.kind = "rejected"
    /\ cOutcome.key = "c"
    /\ fCalls = 0

-----------------------------------------------------------------------------
(* Claims about the lazy machine *)

\* C8: validating a cyclic input that mirrors a self-referential Lazy
\* runtype ends after finitely many steps: no (runtype, value) pair is
\* entered again while it is in progress, and the recursion never runs the
\* call stack out.
C8_CyclicValidationTerminates ==
    /\ \A i, j \in 1..Len(lstack) :
          (lstack[i].d = lstack[j].d /\ lstack[i].x = lstack[j].x) => i = j
    /\ lerror # "Maximum call stack size exceeded"
    /\ lresult.message # "Maximum call stack size exceeded"

\* C9: the constructor function of a Lazy runtype runs exactly once, on the
\* first validation use, cached is assigned at most once, and every use
\* delegates to the runtype the constructor returned.
C9_ConstructorRunsOnce ==
    \A L \in Lazies :
        /\ lctorCalls[L] <= 1
        /\ lmemoWrites[L] <= 1
        /\ lused[L] <=> lctorCalls[L] = 1
        /\ lcached[L] = IF lused[L] THEN LRuntypes[L].fn ELSE "unset"

\* Node is in use twice within one validation, after an earlier external
\* call had already used it
C9_Witness_NestedUse ==
    /\ lctorCalls["Node"] = 1
    /\ \E i, j \in 1..Len(lstack) :
          i < j /\ lstack[i].d = "Node" /\ lstack[j].d = "Node" /\ lstack[j].k = 1
    /\ lstack[1].x = "o4"

-----------------------------------------------------------------------------
(* Claims about the show machine *)

\* the frames whose node has been added to the set: every frame but a top
\* frame that was just called
SEntered == {i \in 1..Len(sstack) : i < Len(sstack) \/ smode # "call"}

\* C10: the currently-rendering set is exactly the set of nodes on the
\* stack of show calls, each there once, whether calls return or raise; so
\* the stack is never deeper than the graph has nodes, a node met again is
\* rendered CIRCULAR, and the set is empty when a call of the exported show
\* is over.
C10_CircularIsDfsStack ==
    /\ circular = {sstack[i].n : i \in SEntered}
    /\ \A i, j \in SEntered : sstack[i].n = sstack[j].n => i = j
    /\ Len(sstack) <= Cardinality(DOMAIN SNodes) + 1
    /\ smode = "idle" => circular = {}
    /\ (smode = "idle" /\ sresult.kind = "raised") => sresult.text = "impossible"

\* a dictionary that is its own value type was rendered, and the set is
\* empty again
C10_Witness_CircularRendered ==
    /\ smode = "idle"
    /\ sresult = [kind |-> "returned", text |-> "{ [_: string]: CIRCULAR dictionary }"]
    /\ circular = {}

====
